---------------------------- MODULE Spec2Model ----------------------------
(***************************************************************************)
(* resmgr: the Monitor of tools/resmgr (monitor.rs) with the configuration *)
(* defaults of config.rs.                                                  *)
(*                                                                         *)
(* Strings are TLA+ strings and `contains` is substring containment, as    *)
(* str::contains.  Memory sizes are bytes, converted as the code converts  *)
(* them.  Memory/swap readings and thresholds (f64 GB in the code) are     *)
(* integers in tenths of a GB.  CPU usage (f32 percent) is an integer in   *)
(* tenths of a percent.  Instants are integers counting ticks of           *)
(* TickSeconds seconds; a poll takes place one tick or more after the      *)
(* previous one.  A u64 that configuration can set to any value is four    *)
(* 16-bit limbs, so that its arithmetic wraps where the code's wraps.      *)
(***************************************************************************)
EXTENDS Integers, Sequences, FiniteSets, TLC

VARIABLES
    config,        \* Monitor.config: loaded once, never written
    processes,     \* Monitor.system.processes(): the cached process table
    idle_tracker,  \* Monitor.idle_tracker: pid -> Instant of first idle sample
    clock,         \* the monotonic clock read by Instant::now()
    snapshot,      \* the SystemSnapshot returned by the latest sample()
    last,          \* the latest Monitor call: what it asked of the OS and returned
    panicked,      \* the thread that owns the Monitor has panicked
    main,          \* main.rs: where the caller of the Monitor stands, and its locals
    trend_csv      \* the file at config.trending.csv_path

vars == <<config, processes, idle_tracker, clock, snapshot, last, panicked, main,
          trend_csv>>

----------------------------------------------------------------------------
(* Bounds of the model *)

\* process ids are 1..MaxPid
MaxPid == 2
\* the clock stops at MaxTicks
MaxTicks == 2
\* seconds in one tick of the clock
TickSeconds == 600
\* the trending loop stops after MaxPolls polls
MaxPolls == 4

Pids == 1..MaxPid

----------------------------------------------------------------------------
(* u64 arithmetic: a value is <<l1, l2, l3, l4>>, least significant limb first *)

Limb == 2^16

\* the u64 of a number below 2^31
u64(n) == <<n % Limb, n \div Limb, 0, 0>>

\* x * k in full: five limbs, the fifth is what does not fit 64 bits
mul_exact(x, k) ==
    LET c1 == x[1] * k
        c2 == x[2] * k + c1 \div Limb
        c3 == x[3] * k + c2 \div Limb
        c4 == x[4] * k + c3 \div Limb
    IN  <<c1 % Limb, c2 % Limb, c3 % Limb, c4 % Limb, c4 \div Limb>>

\* x * k does not fit 64 bits
mul_overflows(x, k) == mul_exact(x, k)[5] # 0

\* x * k modulo 2^64
wrapping_mul(x, k) == SubSeq(mul_exact(x, k), 1, 4)

\* a <= b, for two values of as many limbs
less_eq(a, b) ==
    \/ a = b
    \/ \E i \in 1..Len(a) :
          a[i] < b[i] /\ \A j \in (i + 1)..Len(a) : a[j] = b[j]

----------------------------------------------------------------------------
(* config.rs: defaults *)

default_elevated_free == 20
default_elevated_swap == 150
default_high_free == 10
default_high_swap == 250
default_critical_free == 5
default_critical_swap == 300
default_idle_minutes == 10
default_poll_interval == 30
default_trending_interval == 2

default_protected_processes ==
    {"VoiceInk", "Wispr Flow", "Raycast", "Rectangle Pro", "WindowServer",
     "Finder", "Dock", "Bartender", "loginwindow", "NordVPN"}

default_dev_servers == {"next-server", "next dev", "vite", "webpack-dev-server"}

default_zombie_vm_patterns == {"com.apple.Virtualization.VirtualMachine"}

ThresholdsDefault ==
    [elevated_free_gb |-> default_elevated_free,
     elevated_swap_gb |-> default_elevated_swap,
     high_free_gb     |-> default_high_free,
     high_swap_gb     |-> default_high_swap,
     critical_free_gb |-> default_critical_free,
     critical_swap_gb |-> default_critical_swap]

ConfigDefault ==
    [general    |-> [poll_interval_seconds |-> default_poll_interval],
     thresholds |-> ThresholdsDefault,
     auto_kill  |-> [idle_dev_server_minutes |-> u64(default_idle_minutes),
                     zombie_vms |-> TRUE],
     protected  |-> [processes |-> default_protected_processes],
     safe_kill_patterns |-> [dev_servers |-> default_dev_servers,
                             zombie_vms  |-> default_zombie_vm_patterns],
     trending   |-> [enabled |-> TRUE,
                     write_every_n_polls |-> default_trending_interval]]

----------------------------------------------------------------------------
(* Programs the host may run: name, joined command line, resident bytes *)

Program(name, cmd, memory) == [name |-> name, cmd |-> cmd, memory |-> memory]

ProtectedHelper ==
    Program("Raycast Helper",
            "Raycast vite com.apple.Virtualization.VirtualMachine", 209715200)
BrowserRenderer ==
    Program("Brave Browser Helper (Renderer)",
            "--type=renderer vite com.apple.Virtualization.VirtualMachine", 734003200)
EmbeddedHelper ==
    Program("Code Helper (Plugin)",
            "--ua=Chromium next dev com.apple.Virtualization.VirtualMachine", 314573000)
CrashpadHandler ==
    Program("crashpad_handler",
            "/Applications/Arc.app/crashpad_handler webpack-dev-server com.apple.Virtualization.VirtualMachine",
            10485760)
NodeVite == Program("node", "node .bin/vite", 524288000)
NextServer == Program("next-server", "next-server (v14)", 419430400)
VirtualMachine ==
    Program("com.apple.Virtualization.VirtualMachine", "", 1073741824)
DockerBackend == Program("com.docker.backend", "com.docker.backend run", 157286400)
DockerDesktop == Program("Docker Desktop", "Docker Desktop", 314572800)
\* a shell holding `mb` MB
Shell(mb) == Program("zsh", "-zsh", mb * 1048576)
\* a dev server run from a directory named after the virtualization service
ViteInVmDir ==
    Program("node", "node /opt/com.apple.Virtualization.VirtualMachine/.bin/vite",
            524288000)

AllPrograms ==
    {ProtectedHelper, BrowserRenderer, EmbeddedHelper, CrashpadHandler, NodeVite,
     NextServer, VirtualMachine, DockerBackend, DockerDesktop, Shell(1), ViteInVmDir}

\* memory counters, in tenths of a GB
Memory(total, used, available, total_swap, used_swap) ==
    [total_memory |-> total, used_memory |-> used, available_memory |-> available,
     total_swap |-> total_swap, used_swap |-> used_swap]

CalmMemory == Memory(160, 100, 30, 400, 50)

----------------------------------------------------------------------------
(* Strings *)

\* p occurs in s as a contiguous substring
occurs_in(s, p) ==
    \E i \in 0..(Len(s) - Len(p)) : SubSeq(s, i + 1, i + Len(p)) = p

BROWSER_INDICATORS ==
    {"Brave Browser", "Google Chrome", "Chromium", "Firefox", "Safari", "Arc",
     "Microsoft Edge", "Opera"}

BROWSER_FRAMEWORK_PATHS ==
    {"Brave Browser.app", "Google Chrome.app", "Chromium.app", "Arc.app",
     "Microsoft Edge.app", "Opera.app"}

\* the names and command lines of the programs above
HostStrings == {k.name : k \in AllPrograms} \cup {k.cmd : k \in AllPrograms}

\* the patterns monitor.rs searches for, with the default configuration
CodePatterns ==
    default_protected_processes \cup default_dev_servers \cup default_zombie_vm_patterns
        \cup BROWSER_INDICATORS \cup BROWSER_FRAMEWORK_PATHS
        \cup {"Helper", "node", "Brave", "Chrome", "Firefox", "com.docker.backend",
              "Docker Desktop", "Virtualization", "Docker", "docker"}

\* occurs_in, tabulated once for these strings and patterns
ContainsTable == {<<s, p, occurs_in(s, p)>> : s \in HostStrings, p \in CodePatterns}

\* str::contains(pattern): p occurs in s as a contiguous substring,
\* looked up in ContainsTable for the strings tabulated there
contains(s, p) ==
    IF s \in HostStrings /\ p \in CodePatterns
    THEN <<s, p, TRUE>> \in ContainsTable
    ELSE occurs_in(s, p)

----------------------------------------------------------------------------
(* monitor.rs: pure helpers *)

PressureLevel == {"Normal", "Elevated", "High", "Critical"}

\* assess_pressure with the Critical tier a disjunction like the other tiers
assess_pressure_critical_or(free_gb, swap_gb, t) ==
    IF free_gb < t.critical_free_gb \/ swap_gb > t.critical_swap_gb THEN "Critical"
    ELSE IF free_gb < t.high_free_gb \/ swap_gb > t.high_swap_gb THEN "High"
    ELSE IF free_gb < t.elevated_free_gb \/ swap_gb > t.elevated_swap_gb THEN "Elevated"
    ELSE "Normal"

\* assess_pressure with the High tier tested before the Critical tier
assess_pressure_high_first(free_gb, swap_gb, t) ==
    IF free_gb < t.high_free_gb \/ swap_gb > t.high_swap_gb THEN "High"
    ELSE IF free_gb < t.critical_free_gb /\ swap_gb > t.critical_swap_gb THEN "Critical"
    ELSE IF free_gb < t.elevated_free_gb \/ swap_gb > t.elevated_swap_gb THEN "Elevated"
    ELSE "Normal"

\* assess_pressure with the Elevated tier tested before the High tier
assess_pressure_elevated_first(free_gb, swap_gb, t) ==
    IF free_gb < t.critical_free_gb /\ swap_gb > t.critical_swap_gb THEN "Critical"
    ELSE IF free_gb < t.elevated_free_gb \/ swap_gb > t.elevated_swap_gb THEN "Elevated"
    ELSE IF free_gb < t.high_free_gb \/ swap_gb > t.high_swap_gb THEN "High"
    ELSE "Normal"

assess_pressure(free_gb, swap_gb, t) ==
    IF free_gb < t.critical_free_gb /\ swap_gb > t.critical_swap_gb THEN "Critical"
    ELSE IF free_gb < t.high_free_gb \/ swap_gb > t.high_swap_gb THEN "High"
    ELSE IF free_gb < t.elevated_free_gb \/ swap_gb > t.elevated_swap_gb THEN "Elevated"
    ELSE "Normal"

is_protected(cfg, name) ==
    \E p \in cfg.protected.processes : contains(name, p)

is_browser_process(name, cmd) ==
    \/ \E b \in BROWSER_INDICATORS : contains(name, b)
    \/ contains(name, "Helper") /\ \E b \in BROWSER_INDICATORS : contains(cmd, b)
    \/ \E path \in BROWSER_FRAMEWORK_PATHS : contains(cmd, path)

\* the dev-server pattern test of sample and kill_idle_dev_servers
matches_dev_server(cfg, name, cmd) ==
    \E p \in cfg.safe_kill_patterns.dev_servers : contains(name, p) \/ contains(cmd, p)

\* the zombie-VM pattern test of kill_zombie_vms
matches_zombie_vm(cfg, name, cmd) ==
    \E p \in cfg.safe_kill_patterns.zombie_vms : contains(name, p) \/ contains(cmd, p)

\* proc.memory() / 1_048_576
memory_mb(proc) == proc.memory \div 1048576


----------------------------------------------------------------------------
(* The host: what the process table and the memory counters can read *)

\* proc.cpu_usage() < 0.5
IdleCpu == 5

\* CPU usage, in tenths of a percent: the greatest that counts as idle, the
\* least that does not
Idle == IdleCpu - 1
Busy == IdleCpu

\* a running process: name, joined command line, resident bytes, CPU usage
Running(program, cpu) ==
    [name |-> program.name, cmd |-> program.cmd, memory |-> program.memory,
     cpu_usage |-> cpu]

\* every process table over Pids whose processes are among `procs`
Tables(procs) == UNION {[S -> procs] : S \in SUBSET Pids}

----------------------------------------------------------------------------
(* main.rs: the caller of the Monitor *)

\* main at `pc`.  pc: "client" (any caller of the Monitor's methods, in any
\* order), "start" (main before its loop), "tick", "trending", "zombies",
\* "idle", "notify" (the places of a pass of the loop), "status_1",
\* "status_sleep", "status_2", "status_recs", "status_print" (run_status),
\* "exited".  poll_count, prev_level, last_notify (seconds on the clock):
\* main's locals.  level, now: the pass's `level` and `now`.  ops: the kill
\* operations and recommendations called since the last tick.  asked: the
\* (operation, pid) pairs of the terminations asked of the OS since the last
\* tick.  vm_killed, killed: the pass's two result lists.  in_pass: passes
\* begun and not ended.  samples: calls of sample made.  trended: the polls on
\* which write_trending was called.  note: the notification of the pass.
\* sent: the `now` of the last two passes that notified, the later first.
MainAt(pc) ==
    [pc |-> pc, poll_count |-> 0, prev_level |-> "Normal", last_notify |-> 0,
     level |-> "Normal", now |-> 0, ops |-> <<>>, asked |-> {}, vm_killed |-> {},
     killed |-> {}, in_pass |-> 0, samples |-> 0, trended |-> {}, note |-> <<>>,
     sent |-> <<>>]

\* calls(op) with every tick starting a pass of its own, whatever the pass
\* before it is doing
calls_on_every_tick(op) ==
    CASE main.pc = "client" -> TRUE
      [] main.pc \in {"tick", "trending", "zombies", "idle", "notify"}
            /\ op = "sample" -> TRUE
      [] main.pc = "zombies" -> op = "kill_zombie_vms"
      [] main.pc = "idle" -> op = "kill_idle_dev_servers"
      [] main.pc \in {"status_1", "status_2"} -> op = "sample"
      [] main.pc = "status_recs" -> op = "recommendations"
      [] OTHER -> FALSE

\* main is about to call the Monitor's method `op`: main.rs lines 218, 251,
\* 270, 273, 311, 314 (the loop) and 103, 105, 153 (run_status)
calls(op) ==
    CASE main.pc = "client" -> TRUE
      [] main.pc = "tick" -> op = "sample"
      [] main.pc = "zombies" -> op = "kill_zombie_vms"
      [] main.pc = "idle" -> op = "kill_idle_dev_servers"
      [] main.pc \in {"status_1", "status_2"} -> op = "sample"
      [] main.pc = "status_recs" -> op = "recommendations"
      [] OTHER -> FALSE

\* returned(op, snap, call) going on to kill_idle_dev_servers at Elevated too
returned_elevated_idle(op, snap, call) ==
    IF main.pc = "client" THEN main
    ELSE CASE op = "sample" /\ main.pc = "status_1" ->
                [main EXCEPT !.pc = "status_sleep", !.samples = @ + 1]
           [] op = "sample" /\ main.pc = "status_2" ->
                [main EXCEPT !.pc = "status_recs", !.samples = @ + 1,
                             !.level = snap[1].pressure]
           [] op = "sample" /\ main.pc \notin {"status_1", "status_2"} ->
                [main EXCEPT !.pc = "trending", !.poll_count = @ + 1,
                             !.level = snap[1].pressure, !.ops = <<>>, !.asked = {},
                             !.vm_killed = {}, !.killed = {}, !.note = <<>>,
                             !.in_pass = @ + 1, !.samples = @ + 1]
           [] op = "kill_zombie_vms" ->
                [main EXCEPT !.pc = "idle",
                             !.ops = Append(@, op),
                             !.asked = @ \cup {<<op, p>> : p \in call.requested},
                             !.vm_killed = call.killed]
           [] op = "kill_idle_dev_servers" ->
                [main EXCEPT !.pc = "notify", !.ops = Append(@, op),
                             !.asked = @ \cup {<<op, p>> : p \in call.requested},
                             !.killed = call.killed]
           [] op = "recommendations" ->
                [main EXCEPT !.pc = "status_print", !.ops = Append(@, op)]
           [] OTHER -> main

\* main once the Monitor's method `op` has returned snapshot `snap` (sample) or
\* made the call `call` (the other methods): main.rs lines 215-219 (tick,
\* poll_count, sample, level), 251 (Elevated), 270-273 (High), 311-314
\* (Critical), 103-105 and 153 (run_status)
returned(op, snap, call) ==
    IF main.pc = "client" THEN main
    ELSE CASE op = "sample" /\ main.pc = "status_1" ->
                [main EXCEPT !.pc = "status_sleep", !.samples = @ + 1]
           [] op = "sample" /\ main.pc = "status_2" ->
                [main EXCEPT !.pc = "status_recs", !.samples = @ + 1,
                             !.level = snap[1].pressure]
           [] op = "sample" /\ main.pc \notin {"status_1", "status_2"} ->
                [main EXCEPT !.pc = "trending", !.poll_count = @ + 1,
                             !.level = snap[1].pressure, !.ops = <<>>, !.asked = {},
                             !.vm_killed = {}, !.killed = {}, !.note = <<>>,
                             !.in_pass = @ + 1, !.samples = @ + 1]
           [] op = "kill_zombie_vms" ->
                [main EXCEPT !.pc = IF main.level = "Elevated" THEN "notify" ELSE "idle",
                             !.ops = Append(@, op),
                             !.asked = @ \cup {<<op, p>> : p \in call.requested},
                             !.vm_killed = call.killed]
           [] op = "kill_idle_dev_servers" ->
                [main EXCEPT !.pc = "notify", !.ops = Append(@, op),
                             !.asked = @ \cup {<<op, p>> : p \in call.requested},
                             !.killed = call.killed]
           [] op = "recommendations" ->
                [main EXCEPT !.pc = "status_print", !.ops = Append(@, op)]
           [] OTHER -> main

----------------------------------------------------------------------------
(* monitor.rs: sample *)

\* processes.truncate(20)
TopN == 20

RECURSIVE SumMb(_, _)
SumMb(table, S) ==
    IF S = {} THEN 0
    ELSE LET p == CHOOSE q \in S : TRUE
         IN  memory_mb(table[p]) + SumMb(table, S \ {p})

\* sample, lines 108-111
counts_as_node(name) == contains(name, "node") \/ name = "node"

\* sample, lines 112-115
counts_as_browser(name) ==
    contains(name, "Brave") \/ contains(name, "Chrome") \/ contains(name, "Firefox")

\* counts_as_dev_server without the browser test
counts_as_dev_server_by_pattern(cfg, name, cmd) ==
    matches_dev_server(cfg, name, cmd)

\* sample, lines 116-126
counts_as_dev_server(cfg, name, cmd) ==
    ~is_browser_process(name, cmd) /\ matches_dev_server(cfg, name, cmd)

ProcessInfo(pid, proc) ==
    [pid |-> pid, name |-> proc.name, memory_mb |-> memory_mb(proc),
     cpu_percent |-> proc.cpu_usage, cmd |-> proc.cmd]

\* the pids of S in increasing order
Ascending(S) ==
    [k \in 1..Cardinality(S) |->
        CHOOSE p \in S : Cardinality({q \in S : q < p}) = k - 1]

Reverse(s) == [i \in 1..Len(s) |-> s[Len(s) + 1 - i]]

\* self.system.processes().iter(): a HashMap, iterated in an unspecified
\* order.  Every order for a table over Pids; for a larger table the
\* increasing and the decreasing order of pids
IterationOrders(table) ==
    LET n == Cardinality(DOMAIN table)
    IN  IF n = 0 THEN {<<>>}
        ELSE IF DOMAIN table \subseteq Pids
        THEN {it \in [1..n -> DOMAIN table] : \A i, j \in 1..n : i # j => it[i] # it[j]}
        ELSE {Ascending(DOMAIN table), Reverse(Ascending(DOMAIN table))}

\* sort_by(|a, b| b.memory_mb.cmp(&a.memory_mb)): a stable sort of the listing
\* `it`, the larger memory_mb first
sort_by(table, it) ==
    LET before(j, i) ==
            \/ memory_mb(table[it[j]]) > memory_mb(table[it[i]])
            \/ memory_mb(table[it[j]]) = memory_mb(table[it[i]]) /\ j < i
        place(i) == 1 + Cardinality({j \in 1..Len(it) : before(j, i)})
    IN  [k \in 1..Len(it) |-> it[CHOOSE i \in 1..Len(it) : place(i) = k]]

\* the sorted listings sample may get of `table`
SortedByMemory(table) == {sort_by(table, it) : it \in IterationOrders(table)}

\* truncate keeping the last n
truncate_keeping_last(s, n) ==
    IF Len(s) <= n THEN s ELSE SubSeq(s, Len(s) - n + 1, Len(s))

truncate(s, n) == IF Len(s) <= n THEN s ELSE SubSeq(s, 1, n)

top_processes(table, order) ==
    truncate([i \in 1..Len(order) |-> ProcessInfo(order[i], table[order[i]])], TopN)

\* retain_current keeping the entries of vanished processes
retain_current_all(tracker, table) == tracker

\* sample, lines 145-147: self.idle_tracker.retain(|pid, _| current_pids.contains(pid))
retain_current(tracker, table) ==
    [p \in DOMAIN tracker \cap DOMAIN table |-> tracker[p]]

\* track_idle with insert(pid, now) in place of entry(pid).or_insert(now)
track_idle_overwrite(tracker, table, now) ==
    LET idle == {p \in DOMAIN table : table[p].cpu_usage < IdleCpu}
        busy == DOMAIN table \ idle
    IN  [p \in (DOMAIN tracker \ busy) \cup idle |-> IF p \in idle THEN now ELSE tracker[p]]

\* sample, lines 149-156: entry(pid).or_insert(now) when idle, remove(pid) otherwise
track_idle(tracker, table, now) ==
    LET idle == {p \in DOMAIN table : table[p].cpu_usage < IdleCpu}
        busy == DOMAIN table \ idle
    IN  [p \in (DOMAIN tracker \ busy) \cup idle |->
            IF p \in DOMAIN tracker THEN tracker[p] ELSE now]

\* update_idle_tracker without the retain
update_idle_tracker_no_retain(tracker, table, now) == track_idle(tracker, table, now)

\* sample, lines 141-156
update_idle_tracker(tracker, table, now) ==
    track_idle(retain_current(tracker, table), table, now)

SystemSnapshot(cfg, table, mem, order) ==
    LET node    == {p \in DOMAIN table : counts_as_node(table[p].name)}
        browser == {p \in DOMAIN table : counts_as_browser(table[p].name)}
        dev     == {p \in DOMAIN table :
                       counts_as_dev_server(cfg, table[p].name, table[p].cmd)}
    IN  [total_memory_gb     |-> mem.total_memory,
         used_memory_gb      |-> mem.used_memory,
         free_memory_gb      |-> mem.available_memory,
         total_swap_gb       |-> mem.total_swap,
         used_swap_gb        |-> mem.used_swap,
         top_processes       |-> top_processes(table, order),
         pressure            |-> assess_pressure(mem.available_memory, mem.used_swap,
                                                 cfg.thresholds),
         node_count          |-> Cardinality(node),
         node_total_mb       |-> SumMb(table, node),
         browser_count       |-> Cardinality(browser),
         browser_total_mb    |-> SumMb(table, browser),
         dev_server_count    |-> Cardinality(dev),
         dev_server_total_mb |-> SumMb(table, dev)]

\* a call of the Monitor: its pid argument (0: none), the Instant it read
\* (0: none), the pids whose termination it asked of the OS, the boolean and
\* the (name, pid, memory_mb) list it returned; attempts: for each pid, the
\* calls of kill_process made for it, in order; recs: the recommendations
\* returned
Call(op, pid, now, requested, ret, killed) ==
    [op |-> op, pid |-> pid, now |-> now, requested |-> requested, ret |-> ret,
     killed |-> killed, attempts |-> <<>>, recs |-> <<>>]

\* Monitor::sample: refresh the memory counters and the process table (the
\* host's readings, `table` and `mem`, are the inputs), rebuild the
\* aggregates and the top list, update the idle tracker, assess the pressure
sampled(table, mem, limit) ==
    /\ ~panicked
    /\ calls("sample")
    /\ clock < limit
    /\ \E order \in SortedByMemory(table) :
          LET now == clock + 1
          IN  /\ clock' = now
              /\ processes' = table
              /\ idle_tracker' = update_idle_tracker(idle_tracker, table, now)
              /\ snapshot' = <<SystemSnapshot(config, table, mem, order)>>
              /\ last' = Call("sample", 0, now, {}, FALSE, {})
              /\ main' = returned("sample", snapshot', last')
    /\ UNCHANGED <<config, panicked, trend_csv>>

\* Monitor::sample on a host whose process table is one of `tables`
sample_tables(tables, readings) ==
    \E table \in tables, mem \in readings : sampled(table, mem, MaxTicks)

\* Monitor::sample on a host whose processes are among `procs`
sample(procs, readings) ==
    \E table \in Tables(procs), mem \in readings : sampled(table, mem, MaxTicks)

\* Monitor::sample in a loop that stops after `limit` polls
sample_until(tables, readings, limit) ==
    \E table \in tables, mem \in readings : sampled(table, mem, limit)

\* time passes between two calls
Elapse ==
    /\ ~panicked
    /\ clock < MaxTicks
    /\ clock' = clock + 1
    /\ UNCHANGED <<config, processes, idle_tracker, snapshot, last, panicked, main,
                   trend_csv>>

----------------------------------------------------------------------------
(* monitor.rs: the auto-kill policy *)

\* self.config.auto_kill.idle_dev_server_minutes * 60
SecondsPerMinute == 60

\* kill_decision without the protected-list test
kill_decision_unprotected(cfg, table, pid) ==
    IF pid \notin DOMAIN table THEN "absent"
    ELSE IF is_browser_process(table[pid].name, table[pid].cmd) THEN "browser"
    ELSE "kill"

\* kill_decision without the browser safety net
kill_decision_no_safety_net(cfg, table, pid) ==
    IF pid \notin DOMAIN table THEN "absent"
    ELSE IF is_protected(cfg, table[pid].name) THEN "protected"
    ELSE "kill"

\* kill_process up to proc.kill(): "absent" (no such pid in the cached table),
\* "protected" and "browser" (refused), "kill" (the OS is asked to terminate)
kill_decision(cfg, table, pid) ==
    IF pid \notin DOMAIN table THEN "absent"
    ELSE IF is_protected(cfg, table[pid].name) THEN "protected"
    ELSE IF is_browser_process(table[pid].name, table[pid].cmd) THEN "browser"
    ELSE "kill"

\* the pids among `targets` for which kill_process reaches proc.kill()
kill_requests(cfg, table, targets) ==
    {p \in targets : kill_decision(cfg, table, p) = "kill"}

\* the (name, pid, memory_mb) entries pushed for the targets whose kill succeeded
killed_list(table, ok) ==
    {<<table[p].name, p, memory_mb(table[p])>> : p \in ok}

\* what one call kill_process(pid) may do: asked, the number of times it
\* calls proc.kill(), and ret, the boolean it returns (proc.kill() succeeds or
\* fails as the OS decides)
kill_process_outcomes(cfg, table, pid) ==
    IF kill_decision(cfg, table, pid) = "kill"
    THEN {[asked |-> 1, ret |-> os_ok] : os_ok \in BOOLEAN}
    ELSE {[asked |-> 0, ret |-> FALSE]}

\* kill_attempts calling kill_process again for a target after a call that
\* returned false
kill_attempts_retrying(cfg, table, targets) ==
    LET once == {<<o>> : o \in UNION {kill_process_outcomes(cfg, table, p) : p \in targets}}
        first == {att \in [targets -> once] :
                     \A p \in targets : att[p][1] \in kill_process_outcomes(cfg, table, p)}
    IN  UNION {{[p \in targets |->
                    IF att[p][1].ret THEN att[p] ELSE Append(att[p], again[p][1])] :
                 again \in first} : att \in first}

\* for (pid, name, mem_mb) in targets { if self.kill_process(pid) { .. } }: the
\* calls of kill_process the loop makes for each target, with their outcomes
kill_attempts(cfg, table, targets) ==
    LET once == {<<o>> : o \in UNION {kill_process_outcomes(cfg, table, p) : p \in targets}}
    IN  {att \in [targets -> once] :
            \A p \in targets : att[p][1] \in kill_process_outcomes(cfg, table, p)}

\* the targets for which a call of kill_process returned true
succeeded(att) == {p \in DOMAIN att : \E i \in 1..Len(att[p]) : att[p][i].ret}

\* Monitor::kill_process(pid)
kill_process(pid) ==
    /\ ~panicked
    /\ calls("kill_process")
    /\ \E o \in kill_process_outcomes(config, processes, pid) :
          last' = [Call("kill_process", pid, 0, IF o.asked > 0 THEN {pid} ELSE {},
                        o.ret, {})
                      EXCEPT !.attempts = pid :> <<o>>]
    /\ main' = returned("kill_process", snapshot, last')
    /\ UNCHANGED <<config, processes, idle_tracker, clock, snapshot, panicked,
                   trend_csv>>

\* Duration::from_secs(minutes * 60) where the product wraps: a u64
\* multiplication, built without overflow checks
idle_threshold(cfg) ==
    wrapping_mul(cfg.auto_kill.idle_dev_server_minutes, SecondsPerMinute)

\* the u64 multiplication of line 277 overflows
idle_threshold_overflows(cfg) ==
    mul_overflows(cfg.auto_kill.idle_dev_server_minutes, SecondsPerMinute)

\* now.duration_since(*idle_since) >= idle_threshold
idle_long_enough(cfg, idle_since, now) ==
    less_eq(idle_threshold(cfg), u64((now - idle_since) * TickSeconds))

\* kill_idle_dev_servers, lines 281-324: the targets
idle_dev_server_targets(cfg, table, tracker, now) ==
    {p \in DOMAIN table :
        /\ ~is_browser_process(table[p].name, table[p].cmd)
        /\ matches_dev_server(cfg, table[p].name, table[p].cmd)
        /\ ~is_protected(cfg, table[p].name)
        /\ p \in DOMAIN tracker
        /\ idle_long_enough(cfg, tracker[p], now)}

\* kill_idle_dev_servers dropping the idle-tracker entries of the processes it
\* killed
kill_idle_dev_servers_forgetting ==
    /\ ~panicked
    /\ calls("kill_idle_dev_servers")
    /\ LET targets   == idle_dev_server_targets(config, processes, idle_tracker, clock)
           requested == kill_requests(config, processes, targets)
       IN  \E att \in kill_attempts(config, processes, targets) :
               /\ last' = [Call("kill_idle_dev_servers", 0, clock, requested, FALSE,
                                killed_list(processes, succeeded(att)))
                              EXCEPT !.attempts = att]
               /\ idle_tracker' = [p \in DOMAIN idle_tracker \ succeeded(att) |->
                                      idle_tracker[p]]
    /\ main' = returned("kill_idle_dev_servers", snapshot, last')
    /\ UNCHANGED <<config, processes, clock, snapshot, panicked, trend_csv>>

\* Monitor::kill_idle_dev_servers.  Where minutes * 60 overflows, a build with
\* overflow checks panics at line 277 and a build without them goes on with
\* the wrapped product
kill_idle_dev_servers ==
    /\ ~panicked
    /\ calls("kill_idle_dev_servers")
    /\ \/ /\ idle_threshold_overflows(config)
          /\ panicked' = TRUE
          /\ last' = Call("kill_idle_dev_servers", 0, 0, {}, FALSE, {})
          /\ UNCHANGED main
       \/ /\ LET targets   == idle_dev_server_targets(config, processes, idle_tracker,
                                                      clock)
                 requested == kill_requests(config, processes, targets)
             IN  \E att \in kill_attempts(config, processes, targets) :
                     last' = [Call("kill_idle_dev_servers", 0, clock, requested, FALSE,
                                   killed_list(processes, succeeded(att)))
                                 EXCEPT !.attempts = att]
          /\ main' = returned("kill_idle_dev_servers", snapshot, last')
          /\ UNCHANGED panicked
    /\ UNCHANGED <<config, processes, idle_tracker, clock, snapshot, trend_csv>>

\* docker_active looking for the backend process only
docker_active_backend_only(table) ==
    \E p \in DOMAIN table : contains(table[p].name, "com.docker.backend")

\* kill_zombie_vms, lines 342-345
docker_active(table) ==
    \E p \in DOMAIN table :
        contains(table[p].name, "com.docker.backend")
            \/ contains(table[p].name, "Docker Desktop")

\* zombie_vm_targets without the test of auto_kill.zombie_vms
zombie_vm_targets_unconditional(cfg, table) ==
    IF docker_active(table) THEN {}
    ELSE {p \in DOMAIN table : matches_zombie_vm(cfg, table[p].name, table[p].cmd)}

\* kill_zombie_vms, lines 337-381: the targets
zombie_vm_targets(cfg, table) ==
    IF ~cfg.auto_kill.zombie_vms THEN {}
    ELSE IF docker_active(table) THEN {}
    ELSE {p \in DOMAIN table : matches_zombie_vm(cfg, table[p].name, table[p].cmd)}

\* Monitor::kill_zombie_vms
kill_zombie_vms ==
    /\ ~panicked
    /\ calls("kill_zombie_vms")
    /\ LET targets   == zombie_vm_targets(config, processes)
           requested == kill_requests(config, processes, targets)
       IN  \E att \in kill_attempts(config, processes, targets) :
               last' = [Call("kill_zombie_vms", 0, 0, requested, FALSE,
                             killed_list(processes, succeeded(att)))
                           EXCEPT !.attempts = att]
    /\ main' = returned("kill_zombie_vms", snapshot, last')
    /\ UNCHANGED <<config, processes, idle_tracker, clock, snapshot, panicked,
                   trend_csv>>

----------------------------------------------------------------------------
(* monitor.rs: recommendations *)

\* snapshot.browser_total_mb > 2000
BrowserHeavyMb == 2000
\* snapshot.node_count > 50
ManyNodes == 50
\* snapshot.used_swap_gb > 10.0, in tenths of a GB
SwapThrashing == 100

\* any top process whose name contains "Virtualization"
has_vm(snap) ==
    \E i \in 1..Len(snap.top_processes) :
        contains(snap.top_processes[i].name, "Virtualization")

\* any top process whose name contains "Docker" or "docker"
has_docker(snap) ==
    \E i \in 1..Len(snap.top_processes) :
        \/ contains(snap.top_processes[i].name, "Docker")
        \/ contains(snap.top_processes[i].name, "docker")

\* the five messages, each the text of its format string with the values put
\* into it
dev_server_rec(snap) ==
    <<"Kill {} dev server(s) to free ~{}MB", snap.dev_server_count,
      snap.dev_server_total_mb>>
browser_rec(snap) ==
    <<"Browser using {}MB across {} processes", snap.browser_total_mb,
      snap.browser_count>>
node_rec(snap) ==
    <<"{} node processes ({}MB)", snap.node_count, snap.node_total_mb>>
zombie_vm_rec == <<"Zombie Virtualization VM detected">>
swap_rec(snap) == <<"Swap at {:.1}GB", snap.used_swap_gb>>

\* recommendations_of with the rules chained by else
recommendations_of_first_match(snap) ==
    IF snap.dev_server_count > 0 THEN <<dev_server_rec(snap)>>
    ELSE IF snap.browser_total_mb > BrowserHeavyMb THEN <<browser_rec(snap)>>
    ELSE IF snap.node_count > ManyNodes THEN <<node_rec(snap)>>
    ELSE IF has_vm(snap) /\ ~has_docker(snap) THEN <<zombie_vm_rec>>
    ELSE IF snap.used_swap_gb > SwapThrashing THEN <<swap_rec(snap)>>
    ELSE <<>>

\* the Vec recommendations(snapshot) returns
recommendations_of(snap) ==
    (IF snap.dev_server_count > 0 THEN <<dev_server_rec(snap)>> ELSE <<>>)
    \o (IF snap.browser_total_mb > BrowserHeavyMb THEN <<browser_rec(snap)>> ELSE <<>>)
    \o (IF snap.node_count > ManyNodes THEN <<node_rec(snap)>> ELSE <<>>)
    \o (IF has_vm(snap) /\ ~has_docker(snap) THEN <<zombie_vm_rec>> ELSE <<>>)
    \o (IF snap.used_swap_gb > SwapThrashing THEN <<swap_rec(snap)>> ELSE <<>>)

\* Monitor::recommendations(&snapshot), on the snapshot the caller holds
recommendations ==
    /\ ~panicked
    /\ calls("recommendations")
    /\ Len(snapshot) = 1
    /\ last' = [Call("recommendations", 0, 0, {}, FALSE, {})
                   EXCEPT !.recs = recommendations_of(snapshot[1])]
    /\ main' = returned("recommendations", snapshot, last')
    /\ UNCHANGED <<config, processes, idle_tracker, clock, snapshot, panicked,
                   trend_csv>>

----------------------------------------------------------------------------
(* main.rs: write_trending, the loop and run_status *)

\* the header line write_trending writes into a new file
CsvHeader == <<"timestamp,pressure,used_gb,free_gb,swap_gb,node_count,node_mb,browser_count,browser_mb,devserver_count,devserver_mb">>

\* the data row of a snapshot, less its timestamp (the output of `date`, or
\* "unknown")
CsvRow(snap) ==
    <<snap.pressure, snap.used_memory_gb, snap.free_memory_gb, snap.used_swap_gb,
      snap.node_count, snap.node_total_mb, snap.browser_count, snap.browser_total_mb,
      snap.dev_server_count, snap.dev_server_total_mb>>

\* write_trending appending the header again before every row
write_trending_header_always(trending, snap, csv) ==
    IF ~trending.enabled THEN {csv}
    ELSE {[csv EXCEPT !.faulted = TRUE]}
         \cup {[exists  |-> TRUE,
                 lines   |-> csv.lines
                             \o (IF header_ok THEN <<CsvHeader>> ELSE <<>>)
                             \o (IF row_ok THEN <<CsvRow(snap)>> ELSE <<>>),
                 faulted |-> csv.faulted \/ ~header_ok \/ ~row_ok] :
                   header_ok \in BOOLEAN, row_ok \in BOOLEAN}

\* write_trending(&config.trending, &snapshot): the file it may leave.  It
\* returns at once when disabled; the open (create, append) may fail; the
\* header is written when the file did not exist; either writeln! may fail,
\* its result dropped
write_trending(trending, snap, csv) ==
    IF ~trending.enabled THEN {csv}
    ELSE {[csv EXCEPT !.faulted = TRUE]}
         \cup {[exists  |-> TRUE,
                 lines   |-> csv.lines
                             \o (IF ~csv.exists /\ header_ok THEN <<CsvHeader>> ELSE <<>>)
                             \o (IF row_ok THEN <<CsvRow(snap)>> ELSE <<>>),
                 faulted |-> csv.faulted \/ (~csv.exists /\ ~header_ok) \/ ~row_ok] :
                   header_ok \in (IF csv.exists THEN {TRUE} ELSE BOOLEAN),
                   row_ok \in BOOLEAN}

\* Instant::now() - Duration::from_secs(300)
StartupCredit == 300
\* notify_cooldown
NotifyCooldown == 120
\* the Elevated reminder: duration_since(last_notify) > 300 s
ElevatedRepeat == 300
\* the Critical cooldown
CriticalCooldown == 60

\* main from Config::load to time::interval(poll_interval), which panics on a
\* zero period
start ==
    /\ ~panicked
    /\ main.pc = "start"
    /\ IF config.general.poll_interval_seconds = 0
       THEN panicked' = TRUE /\ UNCHANGED main
       ELSE /\ main' = [main EXCEPT !.pc = "tick", !.prev_level = "Normal",
                                    !.last_notify = clock * TickSeconds - StartupCredit,
                                    !.poll_count = 0]
            /\ UNCHANGED panicked
    /\ UNCHANGED <<config, processes, idle_tracker, clock, snapshot, last, trend_csv>>

\* lines 235-240: poll_count % write_every_n_polls, which panics on a zero
\* divisor; write_trending on the polls it selects; `now`, read `late`
\* seconds after the Instant sample read
trend_at(late) ==
    /\ ~panicked
    /\ main.pc = "trending"
    /\ IF config.trending.write_every_n_polls = 0
       THEN panicked' = TRUE /\ UNCHANGED <<main, trend_csv>>
       ELSE /\ UNCHANGED panicked
            /\ LET due  == main.poll_count % config.trending.write_every_n_polls = 0
                   next == IF main.level = "Normal" THEN "notify" ELSE "zombies"
               IN  /\ IF due
                      THEN trend_csv' \in write_trending(config.trending, snapshot[1],
                                                         trend_csv)
                      ELSE UNCHANGED trend_csv
                   /\ main' = [main EXCEPT !.pc = next, !.now = clock * TickSeconds + late,
                                           !.trended = IF due THEN @ \cup {main.poll_count}
                                                       ELSE @]
    /\ UNCHANGED <<config, processes, idle_tracker, clock, snapshot, last>>

\* lines 235-240 reached in the second sample read its Instant
trend == trend_at(0)

\* how long after sample's Instant line 239 may read its own: at once, or so
\* late that the next pass follows at a cooldown, or a second more
Lateness ==
    {0} \cup {TickSeconds - d - e :
                d \in {CriticalCooldown, NotifyCooldown, ElevatedRepeat}, e \in 0..1}

\* lines 235-240 reached at any of these times
trend_late == \E late \in Lateness : trend_at(late)

\* notification_due with the High condition at Elevated
notification_due_elevated_as_high(level, prev_level, since) ==
    CASE level = "Normal"   -> FALSE
      [] level = "Elevated" -> since > NotifyCooldown
      [] level = "High"     -> since > NotifyCooldown
      [] level = "Critical" -> since > CriticalCooldown

\* notification_due with the Critical cooldown at High
notification_due_high_as_critical(level, prev_level, since) ==
    CASE level = "Normal"   -> FALSE
      [] level = "Elevated" -> (level # prev_level \/ since > ElevatedRepeat)
                                  /\ since > NotifyCooldown
      [] level = "High"     -> since > CriticalCooldown
      [] level = "Critical" -> since > CriticalCooldown

\* the pass notifies: lines 257-259 (Elevated), 303 (High), 333 (Critical)
notification_due(level, prev_level, since) ==
    CASE level = "Normal"   -> FALSE
      [] level = "Elevated" -> (level # prev_level \/ since > ElevatedRepeat)
                                  /\ since > NotifyCooldown
      [] level = "High"     -> since > NotifyCooldown
      [] level = "Critical" -> since > CriticalCooldown

\* the rest of the pass, lines 242-342: the notification, which the
\* notification service may fail (a warning is logged), last_notify, prev_level
notify ==
    /\ ~panicked
    /\ main.pc = "notify"
    /\ IF notification_due(main.level, main.prev_level, main.now - main.last_notify)
       THEN \E delivered \in BOOLEAN :
               main' = [main EXCEPT !.pc = "tick", !.last_notify = main.now,
                                    !.prev_level = main.level, !.in_pass = @ - 1,
                                    !.note = <<[level |-> main.level,
                                                delivered |-> delivered]>>,
                                    !.sent = IF @ = <<>> THEN <<main.now>>
                                             ELSE <<main.now, @[1]>>]
       ELSE main' = [main EXCEPT !.pc = "tick", !.prev_level = main.level,
                                 !.in_pass = @ - 1]
    /\ UNCHANGED <<config, processes, idle_tracker, clock, snapshot, last, panicked,
                   trend_csv>>

\* status_sleep going on to the report without the second sample
status_sleep_to_report ==
    /\ ~panicked
    /\ main.pc = "status_sleep"
    /\ main' = [main EXCEPT !.pc = "status_recs"]
    /\ UNCHANGED <<config, processes, idle_tracker, clock, snapshot, last, panicked,
                   trend_csv>>

\* run_status, line 104: std::thread::sleep between the two samples
status_sleep ==
    /\ ~panicked
    /\ main.pc = "status_sleep"
    /\ main' = [main EXCEPT !.pc = "status_2"]
    /\ UNCHANGED <<config, processes, idle_tracker, clock, snapshot, last, panicked,
                   trend_csv>>

\* run_status, lines 154-160, and main's return at line 177
status_report ==
    /\ ~panicked
    /\ main.pc = "status_print"
    /\ main' = [main EXCEPT !.pc = "exited"]
    /\ UNCHANGED <<config, processes, idle_tracker, clock, snapshot, last, panicked,
                   trend_csv>>

----------------------------------------------------------------------------
(* Monitor::new, and the calls a caller can make *)

NoPid == [p \in {} |-> 0]

\* Monitor::new(config): nothing sampled yet, an empty idle tracker
new(configs) ==
    /\ config \in configs
    /\ processes = NoPid
    /\ idle_tracker = NoPid
    /\ clock = 0
    /\ snapshot = <<>>
    /\ last = Call("new", 0, 0, {}, FALSE, {})
    /\ panicked = FALSE

\* the file at csv_path: whether it exists, its lines, and faulted: an open or
\* a write of it has failed
NoFile == [exists |-> FALSE, lines |-> <<>>, faulted |-> FALSE]

\* the Monitor's methods are called by some client, in any order
client == main = MainAt("client") /\ trend_csv = NoFile

----------------------------------------------------------------------------
(* The Monitor under any sequence of calls *)

\* a host running a dev server, busy or idle, beside a protected helper whose
\* command line holds a dev-server and a zombie-VM pattern
DevHost ==
    {Running(NodeVite, Idle), Running(NodeVite, Busy), Running(ProtectedHelper, Idle)}

\* a host running browser processes of the three kinds is_browser_process
\* tells (by name, as a helper, by bundle path), each with a dev-server and a
\* zombie-VM pattern in its command line, beside a dev server
BrowserHost ==
    {Running(BrowserRenderer, Idle), Running(EmbeddedHelper, Idle),
     Running(CrashpadHandler, Idle), Running(NodeVite, Idle)}

\* a host running the container engine's processes and a virtual machine
DockerHost ==
    {Running(DockerBackend, Idle), Running(DockerDesktop, Idle),
     Running(VirtualMachine, Idle)}

Calls ==
    \/ Elapse
    \/ \E pid \in Pids : kill_process(pid)
    \/ kill_idle_dev_servers
    \/ kill_zombie_vms

Init == new({ConfigDefault}) /\ client

Next == sample(DevHost, {CalmMemory}) \/ Calls \/ recommendations

Spec == Init /\ [][Next]_vars

NextBrowser == sample(BrowserHost, {CalmMemory}) \/ Calls

SpecBrowser == Init /\ [][NextBrowser]_vars

NextDocker == sample(DockerHost, {CalmMemory}) \/ Calls

SpecDocker == Init /\ [][NextDocker]_vars

\* idle_dev_server_minutes = 307445734561825861 (0x0444444444444445), the
\* least number of minutes whose seconds do not fit a u64
LongIdleMinutes == <<17477, 17476, 17476, 1092>>

ConfigLongIdle ==
    [ConfigDefault EXCEPT !.auto_kill.idle_dev_server_minutes = LongIdleMinutes]

\* a host running a dev server, busy or idle
IdleHost == {Running(NodeVite, Idle), Running(NodeVite, Busy)}

InitIdle == new({ConfigDefault, ConfigLongIdle}) /\ client

NextIdle == sample(IdleHost, {CalmMemory}) \/ Calls

SpecIdle == InitIdle /\ [][NextIdle]_vars

\* auto_kill.zombie_vms = false
ConfigVmOff == [ConfigDefault EXCEPT !.auto_kill.zombie_vms = FALSE]

\* a host running a virtual machine, with or without the container engine
VmHost == {Running(VirtualMachine, Idle), Running(DockerDesktop, Idle)}

InitVmOff == new({ConfigDefault, ConfigVmOff}) /\ client

NextVmOff == sample(VmHost, {CalmMemory}) \/ Calls

SpecVmOff == InitVmOff /\ [][NextVmOff]_vars

\* tables of TopN - 1 .. TopN + 2 shells, pids 1 .. n, whose sizes are all the
\* same (1), grow with the pid (2), fall with the pid (3), alternate between
\* two sizes (4)
ShellMb(kind, n, p) ==
    CASE kind = 1 -> 64
      [] kind = 2 -> p
      [] kind = 3 -> n + 1 - p
      [] kind = 4 -> 1 + (p % 2)

BigTables ==
    {[p \in 1..n |-> Running(Shell(ShellMb(kind, n, p)), Busy)] :
        n \in (TopN - 1)..(TopN + 2), kind \in 1..4}

NextTop == sample_tables(BigTables, {CalmMemory}) \/ Calls

SpecTop == Init /\ [][NextTop]_vars

\* snapshots for recommendations: each rule's value on either side of its
\* threshold, and top processes with and without a virtual machine and the
\* container engine
TopLists ==
    {<<>>,
     <<ProcessInfo(1, Running(VirtualMachine, Idle))>>,
     <<ProcessInfo(1, Running(VirtualMachine, Idle)),
       ProcessInfo(2, Running(DockerDesktop, Idle))>>,
     <<ProcessInfo(1, Running(VirtualMachine, Idle)),
       ProcessInfo(2, Running(DockerBackend, Idle))>>,
     <<ProcessInfo(2, Running(DockerDesktop, Idle))>>}

SnapshotGrid ==
    {[total_memory_gb     |-> 160,
      used_memory_gb      |-> 100,
      free_memory_gb      |-> 30,
      total_swap_gb       |-> 400,
      used_swap_gb        |-> swap,
      top_processes       |-> top,
      pressure            |-> assess_pressure(30, swap, ThresholdsDefault),
      node_count          |-> nodes,
      node_total_mb       |-> nodes * 100,
      browser_count       |-> 4,
      browser_total_mb    |-> browser_mb,
      dev_server_count    |-> devs,
      dev_server_total_mb |-> devs * 500] :
        swap \in {20, SwapThrashing, SwapThrashing + 1},
        top \in TopLists,
        nodes \in {0, ManyNodes, ManyNodes + 1},
        browser_mb \in {BrowserHeavyMb, BrowserHeavyMb + 500},
        devs \in {0, 1}}

\* a caller holding any of these snapshots
InitRecs ==
    /\ config = ConfigDefault
    /\ processes = NoPid
    /\ idle_tracker = NoPid
    /\ clock = 0
    /\ snapshot \in {<<snap>> : snap \in SnapshotGrid}
    /\ last = Call("new", 0, 0, {}, FALSE, {})
    /\ panicked = FALSE
    /\ client

NextRecs == recommendations

SpecRecs == InitRecs /\ [][NextRecs]_vars

\* a process with `born`, the time the OS started it: two processes under
\* one pid differ in it
Started(program, cpu, born) ==
    [name |-> program.name, cmd |-> program.cmd, memory |-> program.memory,
     cpu_usage |-> cpu, born |-> born]

\* a host where a dev server exits and another one starts between two polls
ReuseHost ==
    {Started(NodeVite, Idle, 1), Started(NodeVite, Idle, 2), Started(NodeVite, Busy, 1)}

NextReuse == sample(ReuseHost, {CalmMemory}) \/ Calls

SpecReuse == Init /\ [][NextReuse]_vars

\* any idle tracker a sample may find: entries for any pids, made at any time
\* up to now
InitOrder ==
    /\ config = ConfigDefault
    /\ processes = NoPid
    /\ clock \in 0..1
    /\ idle_tracker \in UNION {[S -> 0..clock] : S \in SUBSET Pids}
    /\ snapshot = <<>>
    /\ last = Call("new", 0, 0, {}, FALSE, {})
    /\ panicked = FALSE
    /\ client

NextOrder == sample(DevHost, {CalmMemory})

SpecOrder == InitOrder /\ [][NextOrder]_vars

----------------------------------------------------------------------------
(* main: the monitoring loop and the status subcommand *)

\* readings assessed Elevated, High and Critical under the default thresholds
ElevatedMemory == Memory(160, 145, 15, 400, 50)
HighMemory == Memory(160, 152, 8, 400, 50)
CriticalMemory == Memory(160, 157, 3, 400, 310)

LevelReadings == {CalmMemory, ElevatedMemory, HighMemory, CriticalMemory}

\* an idle dev server beside a virtual machine; an idle dev server whose
\* command line holds a zombie-VM pattern beside a protected helper
LoopTables ==
    {(1 :> Running(NodeVite, Idle)) @@ (2 :> Running(VirtualMachine, Idle)),
     (1 :> Running(ViteInVmDir, Idle)) @@ (2 :> Running(ProtectedHelper, Idle))}

\* write_every_n_polls = 0
ConfigTrendEveryZero == [ConfigDefault EXCEPT !.trending.write_every_n_polls = 0]
\* poll_interval_seconds = 0
ConfigPollZero == [ConfigDefault EXCEPT !.general.poll_interval_seconds = 0]

\* main started without the status argument
InitLoop ==
    /\ new({ConfigDefault, ConfigTrendEveryZero, ConfigPollZero})
    /\ main = MainAt("start")
    /\ trend_csv = NoFile

NextLoop ==
    \/ start
    \/ sample_tables(LoopTables, LevelReadings)
    \/ trend
    \/ kill_zombie_vms
    \/ kill_idle_dev_servers
    \/ notify

SpecLoop == InitLoop /\ [][NextLoop]_vars

\* trending enabled or not, every poll, every second, every third
TrendConfigs ==
    {[ConfigDefault EXCEPT !.trending = [enabled |-> e, write_every_n_polls |-> w]] :
        e \in BOOLEAN, w \in 1..3}

InitTrend ==
    /\ new(TrendConfigs)
    /\ main = MainAt("start")
    /\ trend_csv = NoFile

\* the loop on a host whose readings do not change from poll to poll
NextTrend ==
    \/ start
    \/ sample_until({(1 :> Running(NodeVite, Idle))}, {HighMemory}, MaxPolls)
    \/ trend
    \/ kill_zombie_vms
    \/ kill_idle_dev_servers
    \/ notify

SpecTrend == InitTrend /\ [][NextTrend]_vars

\* main started with the status argument: run_status on a new Monitor
InitStatus ==
    /\ new({ConfigDefault})
    /\ main = MainAt("status_1")
    /\ trend_csv = NoFile

NextStatus ==
    \/ sample(DevHost, LevelReadings)
    \/ status_sleep
    \/ recommendations
    \/ status_report

SpecStatus == InitStatus /\ [][NextStatus]_vars

\* idle_dev_server_minutes = 0: a dev server is a target from the poll that
\* finds it idle
ConfigIdleZero == [ConfigDefault EXCEPT !.auto_kill.idle_dev_server_minutes = u64(0)]
\* the same with write_every_n_polls = 0
ConfigIdleZeroTrendEveryZero ==
    [ConfigIdleZero EXCEPT !.trending.write_every_n_polls = 0]

InitPressed ==
    /\ new({ConfigDefault, ConfigIdleZero, ConfigIdleZeroTrendEveryZero})
    /\ main = MainAt("start")
    /\ trend_csv = NoFile

\* the loop on a host running a dev server, busy or idle, under any pressure
NextPressed ==
    \/ start
    \/ sample_until({(1 :> Running(NodeVite, Idle)), (1 :> Running(NodeVite, Busy))},
                    LevelReadings, MaxPolls)
    \/ trend
    \/ kill_zombie_vms
    \/ kill_idle_dev_servers
    \/ notify

\* main is the one task of the runtime and awaits nothing but the interval's
\* tick (line 215): a pass that can go on does go on
SpecPressed == InitPressed /\ [][NextPressed]_vars /\ WF_vars(NextPressed)

\* trending.enabled = false
ConfigTrendOff == [ConfigDefault EXCEPT !.trending.enabled = FALSE]

InitNotify ==
    /\ new({ConfigTrendOff})
    /\ main = MainAt("start")
    /\ trend_csv = NoFile

\* the loop on a host with one busy shell, under any pressure, its passes at
\* any distance from one another
NextNotify ==
    \/ start
    \/ sample_until({(1 :> Running(Shell(1), Busy))}, LevelReadings, MaxPolls)
    \/ trend_late
    \/ kill_zombie_vms
    \/ kill_idle_dev_servers
    \/ notify

SpecNotify == InitNotify /\ [][NextNotify]_vars

----------------------------------------------------------------------------
(* assess_pressure on a grid of thresholds and readings *)

\* free-memory thresholds and swap thresholds a configuration file may give,
\* in any order across the three tiers
FreeThresholds == {default_critical_free, default_high_free, default_elevated_free}
SwapThresholds == {default_elevated_swap, default_high_swap, default_critical_swap}

ThresholdGrid ==
    [elevated_free_gb : FreeThresholds, elevated_swap_gb : SwapThresholds,
     high_free_gb : FreeThresholds, high_swap_gb : SwapThresholds,
     critical_free_gb : FreeThresholds, critical_swap_gb : SwapThresholds]

ConfigGrid == {[ConfigDefault EXCEPT !.thresholds = t] : t \in ThresholdGrid}

\* available memory 0.3 .. 3.0 GB and used swap 5 .. 31 GB, the thresholds'
\* own values among them
MemoryGrid ==
    {Memory(160, 160 - free, free, 400, swap) :
        free \in {3, 4, 5, 8, 15, 30}, swap \in {50, 200, 300, 310}}

InitAssess == new(ConfigGrid) /\ client

\* no process is visible on this host
NextAssess == sample({}, MemoryGrid)

SpecAssess == InitAssess /\ [][NextAssess]_vars

----------------------------------------------------------------------------
(* Properties *)

\* the process at pid in the cached table
NameOf(p) == processes[p].name
CmdOf(p) == processes[p].cmd

IdleIn(table, p) == p \in DOMAIN table /\ table[p].cpu_usage < IdleCpu

\* the step is a call of sample
SampleStep == last'.op = "sample" /\ last'.now = clock' /\ clock' # clock

\* p has an idle-tracker entry made idle_dev_server_minutes minutes or more
\* before `now`, the minutes counted in full
IdleForMinutes(p, now) ==
    /\ p \in DOMAIN idle_tracker
    /\ less_eq(mul_exact(config.auto_kill.idle_dev_server_minutes, SecondsPerMinute),
               Append(u64((now - idle_tracker[p]) * TickSeconds), 0))

\* C1: no call asks the OS to terminate a process whose name contains a
\* protected-list entry, whatever dev-server or zombie-VM pattern it matches,
\* and kill_process on such a process returns false
C1_ProtectedNeverKilled ==
    /\ \A p \in last.requested : ~is_protected(config, NameOf(p))
    /\ \A e \in last.killed : ~is_protected(config, e[1])
    /\ (last.op = "kill_process" /\ last.pid \in DOMAIN processes
            /\ is_protected(config, NameOf(last.pid)))
         => (~last.ret /\ last.requested = {})

\* kill_idle_dev_servers terminated a dev server and spared a protected process
\* that matches a dev-server pattern and has been idle as long
C1_Witness ==
    /\ last.op = "kill_idle_dev_servers"
    /\ last.requested # {}
    /\ \E p \in DOMAIN processes :
          /\ is_protected(config, NameOf(p))
          /\ matches_dev_server(config, NameOf(p), CmdOf(p))
          /\ matches_zombie_vm(config, NameOf(p), CmdOf(p))
          /\ IdleForMinutes(p, clock)

\* C2: no call asks the OS to terminate a process that is_browser_process
\* classifies as a browser: not kill_zombie_vms when the process matches a
\* zombie-VM pattern, not a direct kill_process, which returns false
C2_BrowserNeverKilled ==
    /\ \A p \in last.requested : ~is_browser_process(NameOf(p), CmdOf(p))
    /\ \A e \in last.killed : ~is_browser_process(NameOf(e[2]), CmdOf(e[2]))
    /\ (last.op = "kill_process" /\ last.pid \in DOMAIN processes
            /\ is_browser_process(NameOf(last.pid), CmdOf(last.pid)))
         => (~last.ret /\ last.requested = {})

\* kill_zombie_vms ran, no container engine running, on a table that holds a
\* browser process matching a zombie-VM pattern
C2_Witness ==
    /\ last.op = "kill_zombie_vms"
    /\ config.auto_kill.zombie_vms
    /\ \A p \in DOMAIN processes :
          ~occurs_in(NameOf(p), "com.docker.backend") /\ ~occurs_in(NameOf(p), "Docker Desktop")
    /\ \E p \in DOMAIN processes :
          /\ is_browser_process(NameOf(p), CmdOf(p))
          /\ matches_zombie_vm(config, NameOf(p), CmdOf(p))

\* the processes of the cached table that are not browsers and match a
\* dev-server pattern
NonBrowserDevServers ==
    {p \in DOMAIN processes :
        /\ ~is_browser_process(NameOf(p), CmdOf(p))
        /\ matches_dev_server(config, NameOf(p), CmdOf(p))}

\* C3: a browser-classified process is never treated as a dev server: the
\* snapshot's dev-server aggregate counts exactly the processes that match a
\* dev-server pattern and are not browsers, and no browser is in the result of
\* kill_idle_dev_servers
C3_BrowserNeverDevServer ==
    /\ Len(snapshot) = 1 =>
          /\ snapshot[1].dev_server_count = Cardinality(NonBrowserDevServers)
          /\ snapshot[1].dev_server_total_mb = SumMb(processes, NonBrowserDevServers)
    /\ last.op = "kill_idle_dev_servers" =>
          /\ \A p \in last.requested : ~is_browser_process(NameOf(p), CmdOf(p))
          /\ \A e \in last.killed : ~is_browser_process(e[1], CmdOf(e[2]))

\* kill_idle_dev_servers terminated a dev server beside a browser helper that
\* matches a dev-server pattern in its command line only and has been idle long
\* enough
C3_Witness ==
    /\ last.op = "kill_idle_dev_servers"
    /\ last.killed # {}
    /\ Len(snapshot) = 1
    /\ snapshot[1].dev_server_count = 1
    /\ \E p \in DOMAIN processes :
          /\ is_browser_process(NameOf(p), CmdOf(p))
          /\ ~(\E b \in BROWSER_INDICATORS : occurs_in(NameOf(p), b))
          /\ matches_dev_server(config, NameOf(p), CmdOf(p))
          /\ IdleForMinutes(p, clock)

\* C4: every process kill_idle_dev_servers asks the OS to terminate, and so
\* every entry of its result, matches a dev-server pattern, is no browser, is
\* not protected, was idle at the last sample and has a first-idle time at
\* least idle_dev_server_minutes minutes before the call
C4_OnlyLongIdleDevServers ==
    last.op = "kill_idle_dev_servers" =>
        /\ \A e \in last.killed : e[2] \in last.requested
        /\ \A p \in last.requested :
              /\ p \in DOMAIN processes
              /\ matches_dev_server(config, NameOf(p), CmdOf(p))
              /\ ~is_browser_process(NameOf(p), CmdOf(p))
              /\ ~is_protected(config, NameOf(p))
              /\ processes[p].cpu_usage < IdleCpu
              /\ IdleForMinutes(p, last.now)

\* a process of the cached table is the container engine's
EngineRunning ==
    \E p \in DOMAIN processes :
        occurs_in(NameOf(p), "com.docker.backend") \/ occurs_in(NameOf(p), "Docker Desktop")

\* C5: with a process named like com.docker.backend or Docker Desktop in the
\* table, kill_zombie_vms asks for no termination and returns an empty list
C5_EngineSparesVms ==
    (last.op = "kill_zombie_vms" /\ EngineRunning)
        => (last.requested = {} /\ last.killed = {})

\* kill_zombie_vms ran with Docker Desktop and a virtual machine in the table
C5_Witness ==
    /\ last.op = "kill_zombie_vms"
    /\ \E p \in DOMAIN processes : occurs_in(NameOf(p), "Docker Desktop")
    /\ \E p \in DOMAIN processes : matches_zombie_vm(config, NameOf(p), CmdOf(p))

\* C6: over two consecutive polls with the process idle its first-idle time
\* stays and its idle duration grows; a poll with the process at 0.5 % CPU or
\* more removes its entry; the first idle poll after that records its own time
C6_IdleStreak ==
    [][SampleStep =>
        \A p \in Pids :
            /\ (IdleIn(processes, p) /\ IdleIn(processes', p)) =>
                  /\ p \in DOMAIN idle_tracker /\ p \in DOMAIN idle_tracker'
                  /\ idle_tracker'[p] = idle_tracker[p]
                  /\ clock' - idle_tracker'[p] > clock - idle_tracker[p]
            /\ (p \in DOMAIN processes' /\ ~IdleIn(processes', p)) =>
                  p \notin DOMAIN idle_tracker'
            /\ (IdleIn(processes', p) /\ ~IdleIn(processes, p)) =>
                  /\ p \in DOMAIN idle_tracker'
                  /\ idle_tracker'[p] = clock'
                  /\ clock' - idle_tracker'[p] = 0]_vars

\* a poll found a process idle that an earlier poll had found idle
C6_Witness ==
    /\ last.op = "sample"
    /\ last.now = clock
    /\ \E p \in DOMAIN processes :
          IdleIn(processes, p) /\ p \in DOMAIN idle_tracker /\ idle_tracker[p] < clock

\* C7: the idle tracker's keys are exactly the pids of the refreshed table
\* whose CPU usage is below 0.5 %
C7_TrackerKeys ==
    DOMAIN idle_tracker = {p \in DOMAIN processes : processes[p].cpu_usage < IdleCpu}

\* a second poll found one process idle and another pid busy or gone
C7_Witness ==
    /\ last.op = "sample"
    /\ clock >= 2
    /\ \E p \in DOMAIN processes : p \in DOMAIN idle_tracker
    /\ \E q \in Pids : q \notin DOMAIN idle_tracker

\* Normal < Elevated < High < Critical
Rank(level) ==
    CASE level = "Normal" -> 0
      [] level = "Elevated" -> 1
      [] level = "High" -> 2
      [] level = "Critical" -> 3

\* the latest snapshot reads `free` tenths of a GB available and `swap` tenths
\* of a GB of swap in use
Reads(free, swap) ==
    /\ Len(snapshot) = 1
    /\ snapshot[1].free_memory_gb = free
    /\ snapshot[1].used_swap_gb = swap

\* C8: for all thresholds and readings the assessed level is Critical exactly
\* when free memory is below critical_free_gb and swap is above
\* critical_swap_gb; with the default thresholds 0.4 GB free and 20 GB of swap
\* is High
C8_CriticalNeedsBoth ==
    Len(snapshot) = 1 =>
        /\ snapshot[1].pressure = "Critical"
              <=> /\ snapshot[1].free_memory_gb < config.thresholds.critical_free_gb
                  /\ snapshot[1].used_swap_gb > config.thresholds.critical_swap_gb
        /\ (config.thresholds = ThresholdsDefault /\ Reads(4, 200))
              => snapshot[1].pressure = "High"

\* the default thresholds, 0.4 GB free, 20 GB of swap: High
C8_Witness ==
    /\ config.thresholds = ThresholdsDefault
    /\ Reads(4, 200)
    /\ snapshot[1].pressure = "High"

\* C9: for all thresholds, in any order, a sample that reads no more free
\* memory and no less swap than the sample before it is assessed no lower
C9_AssessMonotonic ==
    [][(SampleStep /\ Len(snapshot) = 1
            /\ snapshot'[1].free_memory_gb <= snapshot[1].free_memory_gb
            /\ snapshot'[1].used_swap_gb >= snapshot[1].used_swap_gb)
        => Rank(snapshot'[1].pressure) >= Rank(snapshot[1].pressure)]_vars

\* a second sample assessed Critical under thresholds whose critical tier is
\* wider than the high tier
C9_Witness ==
    /\ clock >= 2
    /\ last.op = "sample"
    /\ config.thresholds.critical_free_gb > config.thresholds.high_free_gb
    /\ config.thresholds.critical_swap_gb < config.thresholds.high_swap_gb
    /\ Len(snapshot) = 1
    /\ snapshot[1].pressure = "Critical"
    /\ snapshot[1].free_memory_gb >= config.thresholds.high_free_gb
    /\ snapshot[1].used_swap_gb <= config.thresholds.high_swap_gb

\* C10: with the default thresholds, 3.0 GB free and 5 GB of swap is Normal,
\* 1.5 and 5 is Elevated, 0.8 and 5 is High, 0.3 and 31 is Critical: the first
\* tier that matches, tried Critical, High, Elevated
C10_DefaultTiers ==
    config.thresholds = ThresholdsDefault =>
        /\ Reads(30, 50) => snapshot[1].pressure = "Normal"
        /\ Reads(15, 50) => snapshot[1].pressure = "Elevated"
        /\ Reads(8, 50) => snapshot[1].pressure = "High"
        /\ Reads(3, 310) => snapshot[1].pressure = "Critical"

\* the default thresholds, 0.8 GB free, 5 GB of swap (the High and the Elevated
\* tier both match): High
C10_Witness ==
    /\ config.thresholds = ThresholdsDefault
    /\ Reads(8, 50)
    /\ snapshot[1].pressure = "High"
    /\ snapshot[1].free_memory_gb < config.thresholds.elevated_free_gb

\* the candidates the bulk operation `last` selected
SelectedBy(call) ==
    IF call.op = "kill_idle_dev_servers"
    THEN idle_dev_server_targets(config, processes, idle_tracker, call.now)
    ELSE zombie_vm_targets(config, processes)

\* C12: a bulk operation calls kill_process exactly once for each candidate it
\* selected, a call of kill_process asks the OS at most once, and the list
\* returned holds exactly the candidates whose one call returned true
C12_FireAndForget ==
    /\ (~panicked /\ last.op \in {"kill_idle_dev_servers", "kill_zombie_vms"}) =>
          /\ DOMAIN last.attempts = SelectedBy(last)
          /\ \A p \in DOMAIN last.attempts : Len(last.attempts[p]) = 1
          /\ {e[2] : e \in last.killed}
                = {p \in DOMAIN last.attempts : last.attempts[p][1].ret}
          /\ Cardinality(last.killed) = Cardinality({e[2] : e \in last.killed})
    /\ last.op \in {"kill_process", "kill_idle_dev_servers", "kill_zombie_vms"} =>
          \A p \in DOMAIN last.attempts :
              \A i \in 1..Len(last.attempts[p]) : last.attempts[p][i].asked <= 1

\* kill_idle_dev_servers asked for a dev server's termination, the OS failed
\* it, and the operation returned without it
C12_Witness ==
    /\ last.op = "kill_idle_dev_servers"
    /\ \E p \in DOMAIN last.attempts :
          /\ last.attempts[p][1].asked = 1
          /\ ~last.attempts[p][1].ret
          /\ p \in last.requested
    /\ last.killed = {}

\* C13: with auto_kill.zombie_vms = false a call of kill_zombie_vms returns
\* the empty list, asks the OS for nothing, calls kill_process for no process
\* and changes nothing of the Monitor
C13_ZombieKillOff ==
    [][(last' # last /\ last'.op = "kill_zombie_vms" /\ ~config.auto_kill.zombie_vms)
          => /\ last'.killed = {}
             /\ last'.requested = {}
             /\ DOMAIN last'.attempts = {}
             /\ UNCHANGED <<config, processes, idle_tracker, clock, snapshot>>]_vars

\* kill_zombie_vms was called with the option off on a host where a virtual
\* machine runs without the container engine
C13_Witness ==
    /\ last.op = "kill_zombie_vms"
    /\ ~config.auto_kill.zombie_vms
    /\ ~docker_active(processes)
    /\ \E p \in DOMAIN processes :
          /\ matches_zombie_vm(config, NameOf(p), CmdOf(p))
          /\ kill_decision(config, processes, p) = "kill"

\* C17: only sample changes the idle tracker and the process table:
\* kill_process, kill_idle_dev_servers, kill_zombie_vms and recommendations
\* leave both as they were, the entries of the processes they killed included
C17_OnlySampleTracks ==
    [][~SampleStep => UNCHANGED <<idle_tracker, processes>>]_vars

\* kill_idle_dev_servers killed a dev server whose idle-tracker entry and
\* table entry are still there
C17_Witness ==
    /\ last.op = "kill_idle_dev_servers"
    /\ \E e \in last.killed : e[2] \in DOMAIN idle_tracker /\ e[2] \in DOMAIN processes

\* the rules of recommendations that fire on a snapshot, numbered in the order
\* of the source
RulesFiring(snap) ==
    {r \in 1..5 :
        CASE r = 1 -> snap.dev_server_count > 0
          [] r = 2 -> snap.browser_total_mb > 2000
          [] r = 3 -> snap.node_count > 50
          [] r = 4 -> /\ \E i \in 1..Len(snap.top_processes) :
                            contains(snap.top_processes[i].name, "Virtualization")
                      /\ \A i \in 1..Len(snap.top_processes) :
                            /\ ~contains(snap.top_processes[i].name, "Docker")
                            /\ ~contains(snap.top_processes[i].name, "docker")
          [] r = 5 -> snap.used_swap_gb > 100}

\* the rule a message comes from
RuleOf(rec) ==
    CASE rec[1] = "Kill {} dev server(s) to free ~{}MB" -> 1
      [] rec[1] = "Browser using {}MB across {} processes" -> 2
      [] rec[1] = "{} node processes ({}MB)" -> 3
      [] rec[1] = "Zombie Virtualization VM detected" -> 4
      [] rec[1] = "Swap at {:.1}GB" -> 5

\* C15: recommendations changes nothing and returns one message for each rule
\* that fires on the snapshot, in the order of the rules; on a snapshot with
\* browser_total_mb = 2500, browser_count = 4, no node process, no dev server,
\* 2 GB of swap used and no virtual machine among the top processes it returns
\* the browser message alone
C15_Recommendations ==
    [][(last' # last /\ last'.op = "recommendations") =>
          LET snap == snapshot[1]
              recs == last'.recs
          IN  /\ UNCHANGED <<config, processes, idle_tracker, clock, snapshot, trend_csv>>
              /\ {RuleOf(recs[i]) : i \in 1..Len(recs)} = RulesFiring(snap)
              /\ \A i, j \in 1..Len(recs) : i < j => RuleOf(recs[i]) < RuleOf(recs[j])
              /\ (/\ snap.browser_total_mb = 2500 /\ snap.browser_count = 4
                  /\ snap.node_count = 0 /\ snap.dev_server_count = 0
                  /\ snap.used_swap_gb = 20 /\ snap.top_processes = <<>>)
                   => recs = <<<<"Browser using {}MB across {} processes", 2500, 4>>>>]_vars

\* recommendations returned all five messages
C15_Witness ==
    /\ last.op = "recommendations"
    /\ Len(last.recs) = 5

\* C19: after a sample of n processes the snapshot's top_processes holds
\* min(20, n) of them, each once and with its own memory_mb, in non-increasing
\* order of memory_mb, and no process left out holds more than one that is in
C19_TopTwenty ==
    Len(snapshot) = 1 =>
        LET top  == snapshot[1].top_processes
            n    == Cardinality(DOMAIN processes)
            pids == {top[i].pid : i \in 1..Len(top)}
        IN  /\ Len(top) = IF n < 20 THEN n ELSE 20
            /\ Cardinality(pids) = Len(top)
            /\ pids \subseteq DOMAIN processes
            /\ \A i \in 1..Len(top) :
                  top[i].memory_mb = processes[top[i].pid].memory \div 1048576
            /\ \A i, j \in 1..Len(top) : i < j => top[i].memory_mb >= top[j].memory_mb
            /\ \A p \in DOMAIN processes \ pids :
                  \A i \in 1..Len(top) :
                      processes[p].memory \div 1048576 <= top[i].memory_mb

\* 22 processes of two sizes were sampled: the list holds 20, the larger
\* first, and a process left out is as large as the last one in
C19_Witness ==
    /\ Len(snapshot) = 1
    /\ Cardinality(DOMAIN processes) = 22
    /\ Len(snapshot[1].top_processes) = 20
    /\ snapshot[1].top_processes[1].memory_mb > snapshot[1].top_processes[20].memory_mb
    /\ \E p \in DOMAIN processes :
          /\ \A i \in 1..20 : snapshot[1].top_processes[i].pid # p
          /\ processes[p].memory \div 1048576 = snapshot[1].top_processes[20].memory_mb

\* the places of main's loop
LoopPlaces == {"start", "tick", "trending", "zombies", "idle", "notify"}

\* C16: the status subcommand samples a new Monitor twice, with the sleep
\* between the two, reports (recommendations included) and ends: it is never at
\* a place of the loop, calls no kill operation, asks for no termination,
\* writes no trend row, and does nothing once it has ended
C16_StatusOneShot ==
    /\ [](/\ main.pc \notin LoopPlaces
          /\ main.samples <= 2
          /\ last.op \in {"new", "sample", "recommendations"}
          /\ last.requested = {}
          /\ trend_csv = NoFile
          /\ main.poll_count = 0
          /\ main.pc = "status_1" => (processes = NoPid /\ idle_tracker = NoPid)
          /\ main.pc = "status_sleep" => main.samples = 1
          /\ main.pc \in {"status_recs", "status_print", "exited"} => main.samples = 2
          /\ main.pc \in {"status_print", "exited"} => main.ops = <<"recommendations">>)
    /\ [][main.pc # "exited"]_vars

\* the status subcommand has ended, having seen a dev server under pressure
C16_Witness ==
    /\ main.pc = "exited"
    /\ main.samples = 2
    /\ main.level = "Critical"
    /\ Len(snapshot) = 1 /\ snapshot[1].dev_server_count > 0

\* C18: passes of the loop never overlap: a pass is begun only by the tick
\* that follows the end of the pass before it
C18_NoOverlap ==
    /\ main.in_pass <= 1
    /\ main.pc \in {"start", "tick"} => main.in_pass = 0
    /\ main.pc \in {"trending", "zombies", "idle", "notify"} => main.in_pass = 1
    /\ main.samples = main.poll_count

\* a second pass is under way, after a first that killed a process
C18_Witness ==
    /\ main.poll_count = 2
    /\ main.pc = "idle"
    /\ main.in_pass = 1
    /\ main.vm_killed # {}

\* C11: no pass of the loop ends the program, whatever the configuration
\* loaded and whatever kills, notifications and trend writes fail
C11_PassNeverFatal ==
    main.in_pass > 0 => ~panicked

\* the polls 1 .. n on which the trend writer is due
TrendPolls(n, every) == {k \in 1..n : k % every = 0}

\* C14: write_trending is called on poll n exactly when n is a multiple of
\* write_every_n_polls, and, enabled and with no open or write failing, the
\* file that did not exist at the start holds the header followed by one row
\* for each call: floor(n / write_every_n_polls) rows after n polls
C14_TrendRows ==
    LET every == config.trending.write_every_n_polls
        n     == IF main.pc = "trending" THEN main.poll_count - 1 ELSE main.poll_count
        rows  == n \div every
    IN  main.pc # "start" =>
          /\ main.trended = TrendPolls(n, every)
          /\ Cardinality(main.trended) = rows
          /\ ~config.trending.enabled => trend_csv = NoFile
          /\ (config.trending.enabled /\ ~trend_csv.faulted) =>
                IF rows = 0 THEN trend_csv = NoFile
                ELSE /\ trend_csv.exists
                     /\ Len(trend_csv.lines) = 1 + rows
                     /\ trend_csv.lines[1] = CsvHeader
                     /\ \A i \in 2..(1 + rows) : Len(trend_csv.lines[i]) = 10

\* four polls writing every second poll have left the header and two rows
C14_Witness ==
    /\ config.trending.enabled
    /\ config.trending.write_every_n_polls = 2
    /\ main.poll_count = 4
    /\ main.pc = "tick"
    /\ ~trend_csv.faulted
    /\ Len(trend_csv.lines) = 3

\* the terminations `op` asked of the OS in this pass
AskedBy(op) == {a[2] : a \in {b \in main.asked : b[1] = op}}

\* the kill operations a pass assessed `level` has called once it is at `pc`
OpsDue(level, pc) ==
    CASE level = "Normal" -> <<>>
      [] level = "Elevated" ->
            IF pc = "zombies" THEN <<>> ELSE <<"kill_zombie_vms">>
      [] OTHER ->
            CASE pc = "zombies" -> <<>>
              [] pc = "idle" -> <<"kill_zombie_vms">>
              [] OTHER -> <<"kill_zombie_vms", "kill_idle_dev_servers">>

\* the operations of a pass are those of its level, in order
OpsOfLevel ==
    main.pc \in {"zombies", "idle", "notify"} => main.ops = OpsDue(main.level, main.pc)

C21_TrackerIdentity ==
    [][SampleStep =>
        \A p \in DOMAIN idle_tracker' :
            /\ IdleIn(processes', p)
            /\ idle_tracker'[p] <= clock'
            /\ idle_tracker'[p] < clock' =>
                  /\ IdleIn(processes, p)
                  /\ processes[p].born = processes'[p].born
                  /\ p \in DOMAIN idle_tracker
                  /\ idle_tracker[p] = idle_tracker'[p]]_vars

\* the idle tracker made in the order of the specification: every current
\* process is updated, then every tracked pid missing from the table is dropped
UpdateThenDrop(tracker, table, now) ==
    LET idle    == {p \in DOMAIN table : table[p].cpu_usage < 5}
        busy    == DOMAIN table \ idle
        updated == [p \in (DOMAIN tracker \ busy) \cup idle |->
                       IF p \in DOMAIN tracker THEN tracker[p] ELSE now]
    IN  [p \in {q \in DOMAIN updated : q \in DOMAIN table} |-> updated[p]]

\* C22: the idle tracker a sample leaves (drop the absent pids, then update
\* every current process) is the one the specified order gives (update every
\* current process, then drop the absent pids), whatever the tracker before
\* and the process table
C22_OrderEquivalent ==
    [][SampleStep => idle_tracker' = UpdateThenDrop(idle_tracker, processes', clock')]_vars

\* a sample has dropped the entry of an absent pid and kept the older entry of
\* an idle process
C22_Witness ==
    /\ last.op = "sample"
    /\ clock = 2
    /\ \E p \in DOMAIN idle_tracker : idle_tracker[p] = 0
    /\ \E q \in Pids : q \notin DOMAIN processes

\* the step ends a pass; NotifiedStep: and the pass sent a notification
PassEnd == main.pc = "notify" /\ main'.pc = "tick"
NotifiedStep == PassEnd /\ main'.note # <<>>

\* C24: a pass assessed Normal sends no notification; a notification comes
\* more than 60 seconds after the one before it, and more than 120 seconds
\* after it when its pass is assessed Elevated or High
C24_Cooldown ==
    [][NotifiedStep =>
          /\ main.level # "Normal"
          /\ main.sent # <<>> =>
                /\ main.now - main.sent[1] > 60
                /\ main.level \in {"Elevated", "High"} => main.now - main.sent[1] > 120]_vars

\* a pass assessed Critical has notified 61 seconds after the notification
\* before it
C24_Witness ==
    /\ main.pc = "tick"
    /\ main.note # <<>>
    /\ main.note[1].level = "Critical"
    /\ Len(main.sent) = 2
    /\ main.sent[1] = main.now
    /\ main.sent[1] - main.sent[2] = 61

\* C25: a pass assessed Elevated notifies exactly when more than 120 seconds
\* have passed since the last notification and either the level differs from
\* that of the pass before or more than 300 seconds have passed since the
\* last notification (before the first notification: always); so a pass
\* assessed Elevated after one assessed Elevated notifies only more than 300
\* seconds after the last notification, and the first pass of the loop
\* notifies if it is assessed Elevated
C25_ElevatedNotification ==
    [][(PassEnd /\ main.level = "Elevated") =>
          LET notified == main'.note # <<>>
              first    == main.sent = <<>>
              since    == main.now - main.sent[1]
          IN  /\ notified <=>
                    \/ first
                    \/ since > 120 /\ (main.prev_level # "Elevated" \/ since > 300)
              /\ (notified /\ ~first /\ main.prev_level = "Elevated") => since > 300
              /\ main.poll_count = 1 => notified]_vars

\* a pass assessed Elevated after one assessed Elevated has stayed silent 300
\* seconds after the last notification
C25_Witness ==
    /\ main.pc = "tick"
    /\ main.level = "Elevated"
    /\ main.prev_level = "Elevated"
    /\ main.note = <<>>
    /\ main.sent # <<>>
    /\ main.now - main.sent[1] = 300
    /\ main.poll_count = 2

\* a pass assessed High or Critical has sampled a dev server, neither protected
\* nor a browser's, idle since at least idle_dev_server_minutes minutes
IdlePassDue(p) ==
    /\ main.pc \in {"trending", "zombies", "idle"}
    /\ main.level \in {"High", "Critical"}
    /\ IdleIn(processes, p)
    /\ matches_dev_server(config, NameOf(p), CmdOf(p))
    /\ ~is_protected(config, NameOf(p))
    /\ ~is_browser_process(NameOf(p), CmdOf(p))
    /\ IdleForMinutes(p, clock)

\* C23: under pressure assessed High or Critical, a dev server that is neither
\* protected nor a browser's and stays idle is asked to terminate in the pass
\* that finds it idle for idle_dev_server_minutes minutes
C23_IdleDevServerAsked ==
    \A p \in Pids : IdlePassDue(p) ~> (p \in AskedBy("kill_idle_dev_servers"))

=============================================================================
